---- MODULE Spec2Model ----
(***************************************************************************)
(* Model of app.py: the upload handler, save_uploaded_csv_to_db,           *)
(* run_pipeline (cleaning, KPI derivation, persistence) and safe_div.      *)
(*                                                                         *)
(* A table is a record [cols, rows]: cols is the set of column names and   *)
(* rows a sequence of functions from cols to cell values.  Every cell is   *)
(* an integer:                                                             *)
(*   - a numeric cell is its value, NULL stands for a missing cell;        *)
(*   - campaign_name / category / campaign_id are small text codes;        *)
(*   - a c_date text is coded day*10 + form: form 0 is the date-only text  *)
(*     "YYYY-MM-DD", form 1 is "YYYY-MM-DD 00:00:00", form 2 is            *)
(*     "YYYY-MM-DD 12:00:00"; BadDate is a text that does not parse        *)
(*     ("not-a-date");                                                     *)
(*   - a parsed timestamp counts half days: day*2 (+1 for noon);           *)
(*   - a rounded KPI cell counts hundredths, NaN is np.nan.                *)
(***************************************************************************)
EXTENDS Integers, Sequences, FiniteSets, TLC

VARIABLES
    stg,        \* table stg_campaigns_raw in the SQLite file
    fact,       \* table fact_campaigns_clean in the SQLite file (NoTable: absent)
    df_clean,   \* run_pipeline's df_clean after the cleaning stage (NoTable: not reached)
    status,     \* what the upload handler showed: "none", "ok", "error"
    pc,         \* position of the upload handler: "idle", "saved"
    uploaded,   \* the table the handler read from the uploaded CSV (new_df)
    had_rows    \* history: fact_campaigns_clean held rows when this upload came in

vars == <<stg, fact, df_clean, status, pc, uploaded, had_rows>>

----------------------------------------------------------------------------
(* Cell values *)

NULL == -9
NaT == -9
NaN == -999999
BadDate == 0

\* bounds of the checked inputs
MaxRows == 2
MaxUploadRows == 1

AllCols ==
    {"id", "c_date", "campaign_name", "category", "campaign_id", "impressions",
     "mark_spent", "clicks", "leads", "orders", "revenue"}

required_cols ==
    {"c_date", "campaign_name", "impressions", "clicks", "mark_spent", "revenue"}

numeric_cols ==
    {"impressions", "clicks", "leads", "orders", "mark_spent", "revenue"}

KpiCols ==
    {"CTR_pct", "CPC", "CPA", "ConversionRate_pct", "ROAS", "Profit", "LeadRate_pct"}

TimeCols == {"Year", "Month", "Weekday", "Is_Weekend"}

NoTable == [cols |-> {}, rows |-> <<>>]

\* CREATE TABLE IF NOT EXISTS stg_campaigns_raw (...): empty, full schema
EmptyStaging == [cols |-> AllCols, rows |-> <<>>]

----------------------------------------------------------------------------
(* Sequence helpers *)

RECURSIVE PickIdx(_, _, _)
\* the subsequence of s at the positions in I, from position k on
PickIdx(s, I, k) ==
    IF k > Len(s) THEN <<>>
    ELSE (IF k \in I THEN <<s[k]>> ELSE <<>>) \o PickIdx(s, I, k + 1)

\* boolean indexing df[mask]: the rows whose mask entry is TRUE, in order
Filter(s, mask) == PickIdx(s, {i \in 1..Len(s) : mask[i]}, 1)

----------------------------------------------------------------------------
(* Dates *)

\* pd.to_datetime(text, errors="coerce"): the timestamp, NaT when unparseable
to_datetime(text) ==
    IF text = NULL \/ text = BadDate THEN NaT
    ELSE (text \div 10) * 2 + (IF text % 10 = 2 THEN 1 ELSE 0)

\* .dt.strftime("%Y-%m-%d"): the canonical text of the timestamp's calendar day
strftime(ts) == (ts \div 2) * 10

\* dt.weekday: Monday = 0 .. Sunday = 6; day 1 is Saturday 2024-01-13
weekday(ts) == ((ts \div 2) + 4) % 7

----------------------------------------------------------------------------
(* Cleaning: run_pipeline, section 2 *)

\* df.drop_duplicates(): the first of each group of fully equal rows stays
drop_duplicates(rows) ==
    PickIdx(rows, {i \in 1..Len(rows) : \A j \in 1..(i - 1) : rows[j] # rows[i]}, 1)

\* the cell of row r in column c; a column the row does not have reads as missing
Cell(r, c) == IF c \in DOMAIN r THEN r[c] ELSE NULL

\* df.dropna(subset=cols): rows with no missing cell in cols (the KeyError for a
\* column of subset that the table lacks is MissingRequired below)
dropna(rows, subset) ==
    Filter(rows, [i \in 1..Len(rows) |-> \A c \in subset : Cell(rows[i], c) # NULL])

\* a comparison with a missing cell is False
GreaterThan(v, k) == v # NULL /\ v > k
AtLeast(v, k) == v # NULL /\ v >= k

\* variant: the non-negative filter runs over the required numeric columns only
RemoveImpossibleRequiredOnly(rows, cols) ==
    LET pos == Filter(rows, [i \in 1..Len(rows) |-> GreaterThan(rows[i]["impressions"], 0)])
    IN  Filter(pos, [i \in 1..Len(pos) |->
                        \A c \in numeric_cols \cap required_cols : AtLeast(pos[i][c], 0)])

\* "Remove impossible values": impressions > 0, then col >= 0 for each present col
RemoveImpossible(rows, cols) ==
    LET pos == Filter(rows, [i \in 1..Len(rows) |-> GreaterThan(rows[i]["impressions"], 0)])
    IN  Filter(pos, [i \in 1..Len(pos) |->
                        \A c \in numeric_cols \cap cols : AtLeast(pos[i][c], 0)])

\* df["c_date"] = pd.to_datetime(df["c_date"], errors="coerce")
ParseDates(rows) ==
    [i \in 1..Len(rows) |-> [rows[i] EXCEPT !["c_date"] = to_datetime(@)]]

\* df["c_date"] = df["c_date"].dt.strftime("%Y-%m-%d")
RenderDates(rows) ==
    [i \in 1..Len(rows) |-> [rows[i] EXCEPT !["c_date"] = strftime(@)]]

\* variant: the rows are left in the order they came in
sort_values_skipped(rows) == {rows}

\* df.sort_values("c_date") with the default kind="quicksort", which is not
\* stable: every ascending arrangement of the rows is a possible result
sort_values(rows) ==
    LET n == Len(rows)
        Perms == {p \in [1..n -> 1..n] : \A i, j \in 1..n : i # j => p[i] # p[j]}
        Asc(p) == \A i \in 1..(n - 1) : rows[p[i]]["c_date"] <= rows[p[i + 1]]["c_date"]
    IN  {[i \in 1..n |-> rows[p[i]]] : p \in {q \in Perms : Asc(q)}}

\* variant: keep="first"
DropDuplicateIdsKeepFirst(rows) ==
    PickIdx(rows,
            {i \in 1..Len(rows) :
                \A j \in 1..(i - 1) : rows[j]["id"] # rows[i]["id"]}, 1)

\* df.drop_duplicates(subset=["id"], keep="last")
DropDuplicateIds(rows) ==
    PickIdx(rows,
            {i \in 1..Len(rows) :
                \A j \in (i + 1)..Len(rows) : rows[j]["id"] # rows[i]["id"]}, 1)

\* variant: dropna treats a column the table lacks as missing on every row
MissingRequiredIgnored(T) == FALSE

\* line 77 raises KeyError when a required column is not in the table
MissingRequired(T) == ~(required_cols \subseteq T.cols)

\* rows that reach the sort: lines 73-88
BeforeSort(T) ==
    dropna(ParseDates(RemoveImpossible(dropna(drop_duplicates(T.rows), required_cols),
                                       T.cols)),
           {"c_date"})

\* lines 89-94 on one of the sorted arrangements
AfterSort(sorted, cols) ==
    IF "id" \in cols THEN DropDuplicateIds(RenderDates(sorted)) ELSE RenderDates(sorted)

\* the tables the cleaning stage can produce from T (T has the required columns)
CleanOutputs(T) ==
    {[cols |-> T.cols, rows |-> AfterSort(s, T.cols)] : s \in sort_values(BeforeSort(T))}

----------------------------------------------------------------------------
(* Feature engineering: run_pipeline, section 3 *)

\* a quotient is a pair <<numerator, denominator>>; NaNq is the quotient np.nan
NaNq == <<0, 0>>

\* variant: a zero denominator yields the quotient 0
safe_div_zero(numer, denom) ==
    IF denom = 0 THEN <<0, 1>>
    ELSE IF numer = NULL \/ denom = NULL THEN NaNq
    ELSE <<numer, denom>>

\* safe_div: np.where(denom == 0, np.nan, numer / denom).  numer / denom is
\* evaluated for every row; a zero denominator gives inf or nan there, no fault.
safe_div(numer, denom) ==
    IF denom = 0 THEN NaNq
    ELSE IF numer = NULL \/ denom = NULL THEN NaNq
    ELSE <<numer, denom>>

\* q * 100
Times100(q) == IF q = NaNq THEN NaNq ELSE <<q[1] * 100, q[2]>>

\* Series.round(2) of a quotient with a positive denominator, in hundredths
\* (round half to even); np.nan stays np.nan
Round2(q) ==
    IF q = NaNq THEN NaN
    ELSE LET a == q[1] * 100
             lo == a \div q[2]
             rem == a % q[2]
         IN  IF 2 * rem < q[2] THEN lo
             ELSE IF 2 * rem > q[2] THEN lo + 1
             ELSE lo + (lo % 2)

\* lines 102-108 read these columns: a missing one raises KeyError
DeriveRaises(cols) == ~(numeric_cols \subseteq cols)

\* the derived cell f of the clean row r (dt is its c_date parsed again, line 99)
Derived(r, f) ==
    LET dt == to_datetime(r["c_date"])
    IN  CASE f = "CTR_pct" -> Round2(Times100(safe_div(r["clicks"], r["impressions"])))
          [] f = "CPC" -> Round2(safe_div(r["mark_spent"], r["clicks"]))
          [] f = "CPA" -> Round2(safe_div(r["mark_spent"], r["orders"]))
          [] f = "ConversionRate_pct" -> Round2(Times100(safe_div(r["orders"], r["clicks"])))
          [] f = "ROAS" -> Round2(safe_div(r["revenue"], r["mark_spent"]))
          [] f = "Profit" -> Round2(<<r["revenue"] - r["mark_spent"], 1>>)
          [] f = "LeadRate_pct" -> Round2(Times100(safe_div(r["leads"], r["clicks"])))
          [] f = "Year" -> 2024
          [] f = "Month" -> 1
          [] f = "Weekday" -> weekday(dt)
          [] f = "Is_Weekend" -> IF weekday(dt) \in {5, 6} THEN 1 ELSE 0

\* df_feat: one row per clean row, the clean cells plus the derived cells
DeriveFeatures(C) ==
    [cols |-> C.cols \cup KpiCols \cup TimeCols,
     rows |-> [i \in 1..Len(C.rows) |->
                 [c \in C.cols \cup KpiCols \cup TimeCols |->
                     IF c \in C.cols THEN C.rows[i][c] ELSE Derived(C.rows[i], c)]]]

----------------------------------------------------------------------------
(* Storage *)

\* variant: if_exists="append" when the stored table has the same columns
to_sql_append(old, df) ==
    IF old.cols = df.cols THEN [cols |-> df.cols, rows |-> old.rows \o df.rows] ELSE df

\* DataFrame.to_sql(name, conn, if_exists="replace"): the stored table is df
to_sql(old, df) == df

----------------------------------------------------------------------------
(* Inputs *)

BaseRow ==
    [id |-> 1, c_date |-> 10, campaign_name |-> 1, category |-> 1, campaign_id |-> 1,
     impressions |-> 3, mark_spent |-> 1, clicks |-> 2, leads |-> 1, orders |-> 1,
     revenue |-> 2]

Dirty == {NULL, -1, 0}

\* the values a column takes besides the base row's
OtherValues(c) ==
    CASE c = "id" -> {2, NULL}
      [] c \in {"campaign_name", "category"} -> {NULL}
      [] c \in {"c_date", "campaign_id"} -> {}
      [] c \in numeric_cols -> Dirty

\* the row base, every row that differs from it in one cell other than c_date,
\* and base with each c_date of dates
RowsLike(base, dates) ==
    {base} \cup
    UNION {{[base EXCEPT ![c] = v] : v \in OtherValues(c)} : c \in AllCols} \cup
    {[base EXCEPT !["c_date"] = d] : d \in dates}

\* pd.to_datetime parses a column in one format, so the parseable texts of a
\* table are all date-only or all written with a time of day
DateOnlyRows == RowsLike(BaseRow, {20, BadDate, NULL})
TimedRows == RowsLike([BaseRow EXCEPT !["c_date"] = 11], {12, 21, BadDate, NULL})

Project(r, cols) == [c \in cols |-> r[c]]

SeqsUpTo(S, n) == UNION {[1..k -> S] : k \in 0..n}

TablesOver(colsets, rows, n) ==
    UNION {{[cols |-> cs, rows |-> s] : s \in SeqsUpTo({Project(r, cs) : r \in rows}, n)}
           : cs \in colsets}

\* column sets of an uploaded CSV: any optional source column or id may be
\* absent, or one required column
ColSets ==
    {AllCols \ X : X \in SUBSET {"id", "leads", "orders"}} \cup
    {AllCols \ {c} : c \in required_cols}

\* stg is a table of at most MaxRows rows over one of ColSets, its rows drawn
\* from DateOnlyRows or from TimedRows
IsRawTable(T) ==
    \E cs \in ColSets : \E family \in {DateOnlyRows, TimedRows} : \E k \in 0..MaxRows :
        T \in [cols : {cs}, rows : [1..k -> {Project(r, cs) : r \in family}]]

UploadRows ==
    {BaseRow, [BaseRow EXCEPT !["id"] = 2], [BaseRow EXCEPT !["c_date"] = 20],
     [BaseRow EXCEPT !["clicks"] = 0], [BaseRow EXCEPT !["impressions"] = 0]}

UploadColSets ==
    {AllCols, AllCols \ {"id"}, AllCols \ {"orders"}, AllCols \ {"revenue"}}

UploadTables == TablesOver(UploadColSets, UploadRows, MaxUploadRows)

----------------------------------------------------------------------------
(* The upload handler: lines 148-169 *)

\* new_df = pd.read_csv(uploaded_file); save_uploaded_csv_to_db(new_df)
SaveUploaded(T) ==
    /\ pc = "idle"
    /\ uploaded' = T
    /\ stg' = to_sql(stg, T)
    /\ df_clean' = NoTable
    /\ status' = "none"
    /\ pc' = "saved"
    /\ had_rows' = (Len(fact.rows) > 0)
    /\ UNCHANGED fact

\* try: run_pipeline() ... except Exception as e: st.error(...)
RunPipeline ==
    /\ pc = "saved"
    /\ pc' = "idle"
    /\ UNCHANGED <<stg, uploaded, had_rows>>
    /\ IF MissingRequired(stg)
       THEN /\ df_clean' = NoTable
            /\ status' = "error"
            /\ UNCHANGED fact
       ELSE \E C \in CleanOutputs(stg) :
              /\ df_clean' = C
              /\ IF DeriveRaises(C.cols)
                 THEN /\ status' = "error"
                      /\ UNCHANGED fact
                 ELSE /\ fact' = to_sql(fact, DeriveFeatures(C))
                      /\ status' = "ok"

Upload == \E T \in UploadTables : SaveUploaded(T)

\* after init_db(), before any upload
Init ==
    /\ stg = EmptyStaging
    /\ fact = NoTable
    /\ df_clean = NoTable
    /\ status = "none"
    /\ pc = "idle"
    /\ uploaded = NoTable
    /\ had_rows = FALSE

Next == Upload \/ RunPipeline

Spec == Init /\ [][Next]_vars

\* one run of the pipeline on an arbitrary uploaded table
InitClean ==
    /\ IsRawTable(stg)
    /\ uploaded = stg
    /\ fact = NoTable
    /\ df_clean = NoTable
    /\ status = "none"
    /\ pc = "saved"
    /\ had_rows = FALSE

NextClean == RunPipeline

CleanSpec == InitClean /\ [][NextClean]_vars

----------------------------------------------------------------------------
(* Properties of the cleaning stage, checked under CleanSpec *)

\* the cleaning stage of the last run produced df_clean
Cleaned == pc = "idle" /\ df_clean # NoTable

\* the last run went through to the end and stored its fact table
Completed == pc = "idle" /\ status = "ok"

CleanRows == df_clean.rows

\* the raw row r passes lines 77-88: required cells present, impressions > 0,
\* no present numeric cell missing or negative, c_date parseable
Survives(r, cols) ==
    /\ \A c \in required_cols : r[c] # NULL
    /\ r["impressions"] > 0
    /\ \A c \in numeric_cols \cap cols : r[c] # NULL /\ r[c] >= 0
    /\ r["c_date"] # BadDate

\* the calendar day and the instant (in half days) a parseable c_date text names
DayOf(text) == text \div 10
InstantOf(text) == 2 * (text \div 10) + (IF text % 10 = 2 THEN 1 ELSE 0)

\* the row r with its c_date in the form YYYY-MM-DD
Canonical(r) == [r EXCEPT !["c_date"] = 10 * DayOf(@)]

\* C1: every row of the Cleaner output has impressions > 0 and no negative
\* value in any numeric column that the table has.
C1_PositiveImpressionsNoNegatives ==
    Cleaned =>
        \A i \in 1..Len(CleanRows) :
            /\ CleanRows[i]["impressions"] # NULL
            /\ CleanRows[i]["impressions"] > 0
            /\ \A c \in numeric_cols \cap df_clean.cols :
                   ~(CleanRows[i][c] # NULL /\ CleanRows[i][c] < 0)

\* C1 witness: a raw table with a negative optional cell on one row and a
\* valid other row was cleaned, and the valid row is the output.
C1_Witness ==
    /\ Cleaned
    /\ Len(stg.rows) = 2
    /\ "leads" \in stg.cols
    /\ \E i \in 1..2 : stg.rows[i]["leads"] = -1
    /\ Len(CleanRows) = 1

\* C2: with an id column, the Cleaner output has no two rows with the same id,
\* and the row kept for an id is (the canonical form of) a surviving row whose
\* instant no other surviving row of that id exceeds; of two surviving rows with
\* one id and different calendar days the earlier-dated one is not in the output.
C2_UniqueIdsKeepLast ==
    (Cleaned /\ "id" \in stg.cols) =>
        LET live == {i \in 1..Len(stg.rows) : Survives(stg.rows[i], stg.cols)}
        IN  /\ \A i, j \in 1..Len(CleanRows) :
                   i # j => CleanRows[i]["id"] # CleanRows[j]["id"]
            /\ \A i \in live : \E j \in 1..Len(CleanRows) :
                   CleanRows[j]["id"] = stg.rows[i]["id"]
            /\ \A j \in 1..Len(CleanRows) : \E i \in live :
                   /\ Canonical(stg.rows[i]) = CleanRows[j]
                   /\ \A k \in live :
                          stg.rows[k]["id"] = stg.rows[i]["id"] =>
                              InstantOf(stg.rows[k]["c_date"]) <= InstantOf(stg.rows[i]["c_date"])
            /\ \A i, k \in live :
                   (/\ stg.rows[i]["id"] = stg.rows[k]["id"]
                    /\ DayOf(stg.rows[i]["c_date"]) < DayOf(stg.rows[k]["c_date"]))
                   => \A j \in 1..Len(CleanRows) : CleanRows[j] # Canonical(stg.rows[i])

\* C2 witness: two surviving rows share an id, the later-dated one stands first
\* in the raw table, and the output is that later-dated row alone.
C2_Witness ==
    /\ Cleaned
    /\ "id" \in stg.cols
    /\ Len(stg.rows) = 2
    /\ Survives(stg.rows[1], stg.cols) /\ Survives(stg.rows[2], stg.cols)
    /\ stg.rows[1]["id"] = stg.rows[2]["id"]
    /\ DayOf(stg.rows[1]["c_date"]) > DayOf(stg.rows[2]["c_date"])
    /\ CleanRows = <<Canonical(stg.rows[1])>>

\* C9: the Cleaner output is sorted non-decreasing by c_date, every c_date in
\* it is the YYYY-MM-DD text of a calendar day, and every output row is the
\* canonical form of a raw row whose c_date parses.
C9_SortedCanonicalDates ==
    Cleaned =>
        /\ \A i \in 1..(Len(CleanRows) - 1) :
               CleanRows[i]["c_date"] <= CleanRows[i + 1]["c_date"]
        /\ \A i \in 1..Len(CleanRows) :
               /\ CleanRows[i]["c_date"] > 0
               /\ CleanRows[i]["c_date"] % 10 = 0
               /\ \E k \in 1..Len(stg.rows) :
                      /\ stg.rows[k]["c_date"] \notin {NULL, BadDate}
                      /\ Canonical(stg.rows[k]) = CleanRows[i]

\* C9 witness: two rows with different ids, the later-dated first in the raw
\* table and written in a non-canonical form, both in the output, reordered.
C9_Witness ==
    /\ Cleaned
    /\ Len(stg.rows) = 2
    /\ Len(CleanRows) = 2
    /\ InstantOf(stg.rows[1]["c_date"]) > InstantOf(stg.rows[2]["c_date"])
    /\ stg.rows[1]["c_date"] % 10 # 0
    /\ CleanRows[2] = Canonical(stg.rows[1])

\* C3: cleaning the Cleaner's output again yields the same table.  (Stated for
\* the runs that complete, and in its weakest form: the same table is among the
\* results a second cleaning can give, whatever order the sort leaves equal
\* instants in.)
C3_CleanerIdempotent == Completed => df_clean \in CleanOutputs(df_clean)

\* C4: the Cleaner output contains no two fully identical rows (stated for the
\* runs that complete).
C4_NoIdenticalRows ==
    Completed => \A i, j \in 1..Len(CleanRows) : i # j => CleanRows[i] # CleanRows[j]

\* C5: a raw row with every required cell present and valid, impressions > 0,
\* a parseable date and no negative numeric cell is not removed because leads
\* or orders is missing on it: the output holds its canonical form, or (with an
\* id column) the row kept for its id (stated for the runs that complete).
C5_NullOptionalKept ==
    Completed =>
        \A i \in 1..Len(stg.rows) :
            LET r == stg.rows[i]
            IN  (/\ \A c \in required_cols : r[c] # NULL
                 /\ r["impressions"] > 0
                 /\ r["c_date"] # BadDate
                 /\ \A c \in numeric_cols \cap stg.cols : r[c] = NULL \/ r[c] >= 0)
                => \E j \in 1..Len(CleanRows) :
                       \/ CleanRows[j] = Canonical(r)
                       \/ "id" \in stg.cols /\ CleanRows[j]["id"] = r["id"]

\* C7: with the required columns present and leads or orders absent, the run
\* raises no error and the fact table has one row per clean row, each with the
\* derived fields that do not depend on the absent column (stated for the runs
\* whose clean table has rows).
C7_AbsentOptionalTolerated ==
    (/\ Cleaned
     /\ Len(CleanRows) > 0
     /\ required_cols \subseteq stg.cols
     /\ ~({"leads", "orders"} \subseteq stg.cols))
    => /\ status = "ok"
       /\ Len(fact.rows) = Len(CleanRows)
       /\ {"CTR_pct", "CPC", "ROAS", "Profit"} \cup TimeCols \subseteq fact.cols

\* the ratio fields: <<field, numerator column, denominator column, scale>>
RatioFields ==
    {<<"CTR_pct", "clicks", "impressions", 100>>,
     <<"CPC", "mark_spent", "clicks", 1>>,
     <<"CPA", "mark_spent", "orders", 1>>,
     <<"ConversionRate_pct", "orders", "clicks", 100>>,
     <<"ROAS", "revenue", "mark_spent", 1>>,
     <<"LeadRate_pct", "leads", "clicks", 100>>}

\* C8: a run on a table that has every column the ratio fields read completes,
\* zero denominators or not, with one fact row per clean row; in its fact table
\* a ratio field whose denominator is 0 is not-a-number, and with a non-zero
\* denominator it is a number, the hundredth nearest to
\* scale * numerator / denominator.
C8_SafeDivision ==
    /\ (pc = "idle" /\ status # "none" /\ numeric_cols \cup required_cols \subseteq stg.cols)
           => (status = "ok" /\ Len(fact.rows) = Len(CleanRows))
    /\ Completed =>
        \A i \in 1..Len(fact.rows) : \A f \in RatioFields :
            LET r == fact.rows[i]
                v == r[f[1]]
                exact == f[4] * 100 * r[f[2]]
                err == v * r[f[3]] - exact
            IN  /\ r[f[3]] = 0 => v = NaN
                /\ r[f[3]] # 0 =>
                       /\ v # NaN
                       /\ 2 * err <= r[f[3]]
                       /\ 2 * err >= 0 - r[f[3]]

\* C8 witness: a completed run whose fact table has a row with clicks = 0 and
\* CPC, ConversionRate_pct and LeadRate_pct not-a-number, CTR_pct a number.
C8_Witness ==
    /\ pc = "idle"
    /\ status = "ok"
    /\ \E i \in 1..Len(fact.rows) :
           /\ fact.rows[i]["clicks"] = 0
           /\ fact.rows[i]["CPC"] = NaN
           /\ fact.rows[i]["ConversionRate_pct"] = NaN
           /\ fact.rows[i]["LeadRate_pct"] = NaN
           /\ fact.rows[i]["CTR_pct"] = 0

----------------------------------------------------------------------------
(* Properties of the upload handler, checked under Spec *)

C10_FullReplace ==
    /\ [](pc = "saved" => stg = uploaded)
    /\ []((pc = "idle" /\ status = "ok") =>
              /\ stg = uploaded
              /\ fact \in {DeriveFeatures(C) : C \in CleanOutputs(uploaded)})
    /\ [][pc = "saved" => stg' = stg]_vars

\* C10 witness: a run completed on an upload whose rows are all dropped, after
\* an earlier run had stored fact rows; the fact table is now empty.
C10_Witness ==
    /\ pc = "idle"
    /\ status = "ok"
    /\ had_rows
    /\ Len(stg.rows) > 0
    /\ stg = uploaded
    /\ fact # NoTable
    /\ Len(fact.rows) = 0

====
